---- MODULE Spec2Model ----
(***************************************************************************)
(* ContextDojo: the conversation knowledge graph.                          *)
(*                                                                         *)
(*  - the merge of proposed topics into the graph (App.tsx,                *)
(*    triggerGraphUpdate), on a heap of arrays and node objects so that    *)
(*    copying and aliasing are different things;                           *)
(*  - computeDepths and getPathToRoot (MindMap.tsx) as operators that      *)
(*    follow the loops of the source;                                      *)
(*  - the session (App.tsx): text and voice handlers, graph updates that   *)
(*    wait for the extraction, and the reset;                              *)
(*  - the layout effect (MindMap.tsx): simulations, their ticks with the   *)
(*    clamp, and the position cache;                                       *)
(*  - the layout effect of the second MindMap component of the same file,  *)
(*    which hands its props to d3;                                         *)
(*  - the selection (MindMap.tsx): selectedNode and highlightSet;          *)
(*  - the conversation history (App.tsx): a text turn among voice events.  *)
(***************************************************************************)
EXTENDS Integers, Sequences, FiniteSets, Bags, TLC

VARIABLES
    heap,        \* objs: node objects, nodeArrs: node arrays, linkArrs: link arrays
    dojoState,   \* the React state: references to the node array and the link array
    fnPc,        \* position of the helper-function harness
    linkList,    \* the link list handed to computeDepths / getPathToRoot
    nodeList,    \* the node ids handed to the layout
    targetId,    \* the id handed to getPathToRoot
    depthsOut,   \* the last result of computeDepths
    pathOut,     \* the last result of getPathToRoot
    turns,       \* handlers waiting for the reply of the conversation model
    inFlight,    \* triggerGraphUpdate calls waiting for generateGraphUpdates
    isProcessing,\* the React state isProcessing
    applied,     \* the candidate lists handed to the updater since the last reset
    lastUpdate,  \* the last extraction response triggerGraphUpdate has dealt with
    cleared,     \* Clear was pressed and no turn has been sent since
    simulations, \* the d3 simulations whose timer has not been stopped
    nodePositions, \* the position cache: id -> x, y, vx, vy
    layoutStep,  \* what the layout did last: mount, effect, restart or tick
    selectedNode,\* the React state selectedNode: the node object clicked, or null
    highlightSet,\* the memo highlightSet of the last render
    conversationHistory, \* dojoState.conversationHistory
    textTurns,   \* handleSendMessage calls waiting for generateDojoResponse
    voiceTurns,  \* handleAgentStoppedSpeaking calls waiting for analyzeInteraction
    clock        \* the messages created so far: new Date() of the next one

vars == <<heap, dojoState, fnPc, linkList, nodeList, targetId, depthsOut, pathOut,
          turns, inFlight, isProcessing, applied, lastUpdate, cleared,
          simulations, nodePositions, layoutStep,
          selectedNode, highlightSet,
          conversationHistory, textTurns, voiceTurns, clock>>
graphVars == <<heap, dojoState>>
fnVars == <<fnPc, linkList, nodeList, targetId, depthsOut, pathOut>>
sessionVars == <<turns, inFlight, isProcessing, applied, lastUpdate, cleared>>
layoutVars == <<simulations, nodePositions, layoutStep>>
selectionVars == <<selectedNode, highlightSet>>
historyVars == <<conversationHistory, textTurns, voiceTurns, clock>>

None == "none"

(***************************************************************************)
(* Bounds and input sets                                                   *)
(***************************************************************************)
MaxUpdates == 2     \* longest candidate list of one extraction response
MaxLinks == 3       \* longest link list handed to the helper functions

CandLabels == {"context", "Travel", "travel", "Food", "Recipes"}
ParentLabels == {"Context", "travel", "food", "Unknown"}
CandTypes == {"concept", "entity", "action", "emotion"}
Statuses == {"active", "potential"}

\* String.prototype.toLowerCase on the strings of the model
ToLowerCase(s) ==
    CASE s = "Context" -> "context"
      [] s = "Travel" -> "travel"
      [] s = "Food" -> "food"
      [] s = "Recipes" -> "recipes"
      [] s = "Unknown" -> "unknown"
      [] s = "International food" -> "international food"
      [] OTHER -> s

\* the type and the parents the extraction proposes for a label in this model;
\* "travel" names itself as its parent, "Unknown" names no node
TypeOf(label) ==
    CASE label = "Travel" -> "concept"
      [] label = "travel" -> "emotion"
      [] label = "Food" -> "entity"
      [] label = "Recipes" -> "action"
      [] OTHER -> "concept"

ParentsOf(label) ==
    CASE label = "Travel" -> {"Context"}
      [] label = "travel" -> {"travel"}
      [] label = "Food" -> {"travel", "Unknown"}
      [] label = "Recipes" -> {"food"}
      [] OTHER -> {"Unknown"}

\* the description the extraction gives for a label (the response schema
\* requires one for every node)
DescriptionOf(label) ==
    CASE label = "Travel" -> "Plans for a trip"
      [] label = "travel" -> "Feelings about travelling"
      [] label = "Food" -> "Food on the way"
      [] label = "Recipes" -> "Cooking at home"
      [] OTHER -> "The conversation"

Descriptions == {DescriptionOf(label) : label \in CandLabels}

\* one node of the parsed response of generateGraphUpdates
Candidates ==
    {c \in [label : CandLabels, type : CandTypes, status : Statuses, parent : ParentLabels,
            description : Descriptions] :
        /\ c.type = TypeOf(c.label)
        /\ c.parent \in ParentsOf(c.label)
        /\ c.description = DescriptionOf(c.label)}

RECURSIVE ListsUpTo(_, _)
ListsUpTo(S, n) ==
    IF n = 0 THEN {<<>>}
    ELSE LET shorter == ListsUpTo(S, n - 1)
         IN shorter \cup {Append(l, x) : l \in {s \in shorter : Len(s) = n - 1}, x \in S}

\* the responses generateGraphUpdates can return (nodes: [] included)
UpdateLists == ListsUpTo(Candidates, MaxUpdates)

\* the candidate lists a longer list is split into: none or one candidate
SplitLists == {<<>>} \cup {<<c>> : c \in Candidates}

\* lastUpdate before any extraction response has come back
NoUpdate ==
    [origin |-> None, closure |-> [nodes |-> <<>>, links |-> <<>>],
     throws |-> FALSE, doc |-> None, nodes |-> <<>>, merged |-> FALSE]

(***************************************************************************)
(* The heap.  objs, nodeArrs and linkArrs are sequences; a reference is an *)
(* index into one of them, and allocating appends.                         *)
(***************************************************************************)
RootObject ==
    [id |-> "Context", label |-> "Context", group |-> 1, type |-> "root", status |-> "active"]

\* INITIAL_NODES is node array 1 holding object 1; INITIAL_STATE.mindMapLinks is
\* link array 1
InitialHeap == [objs |-> <<RootObject>>, nodeArrs |-> << <<1>> >>, linkArrs |-> << <<>> >>]

INITIAL_STATE == [mindMapNodes |-> 1, mindMapLinks |-> 1]

\* the node records and the links a state refers to
NodesOf(h, st) ==
    [i \in 1..Len(h.nodeArrs[st.mindMapNodes]) |-> h.objs[h.nodeArrs[st.mindMapNodes][i]]]
LinksOf(h, st) == h.linkArrs[st.mindMapLinks]

Nodes == NodesOf(heap, dojoState)
Links == LinksOf(heap, dojoState)

(***************************************************************************)
(* triggerGraphUpdate: the merge                                           *)
(***************************************************************************)
\* const nextNodes = prev.mindMapNodes  (no copy)
AliasNodes(h, src) == [heap |-> h, ref |-> src]

\* const nextNodes = [...prev.mindMapNodes]
SpreadNodes(h, src) ==
    [heap |-> [h EXCEPT !.nodeArrs = Append(@, h.nodeArrs[src])],
     ref |-> Len(h.nodeArrs) + 1]

\* const nextLinks = []: the links of the previous state are not taken along
FreshLinks(h, src) ==
    [heap |-> [h EXCEPT !.linkArrs = Append(@, <<>>)],
     ref |-> Len(h.linkArrs) + 1]

\* const nextLinks = [...prev.mindMapLinks]
SpreadLinks(h, src) ==
    [heap |-> [h EXCEPT !.linkArrs = Append(@, h.linkArrs[src])],
     ref |-> Len(h.linkArrs) + 1]

RECURSIVE FirstFrom(_, _, _, _)
FirstFrom(objs, a, lower, i) ==
    IF i > Len(a) THEN 0
    ELSE IF ToLowerCase(objs[a[i]].label) = lower THEN i
    ELSE FirstFrom(objs, a, lower, i + 1)

RECURSIVE FirstRawFrom(_, _, _, _)
FirstRawFrom(objs, a, lower, i) ==
    IF i > Len(a) THEN 0
    ELSE IF objs[a[i]].label = lower THEN i
    ELSE FirstRawFrom(objs, a, lower, i + 1)

\* arr.findIndex(ex => ex.label === lower): the node's label is not lower-cased
FindIndexExact(h, arr, lower) == FirstRawFrom(h.objs, h.nodeArrs[arr], lower, 1)

\* arr.findIndex(ex => ex.label.toLowerCase() === lower); 0 stands for -1
FindIndex(h, arr, lower) == FirstFrom(h.objs, h.nodeArrs[arr], lower, 1)

RECURSIVE FirstExactFrom(_, _, _, _)
FirstExactFrom(objs, a, label, i) ==
    IF i > Len(a) THEN 0
    ELSE IF objs[a[i]].label = label THEN a[i]
    ELSE FirstExactFrom(objs, a, label, i + 1)

\* arr.find(ex => ex.label === label): the reference of the object, 0 for undefined
FindExact(h, arr, label) == FirstExactFrom(h.objs, h.nodeArrs[arr], label, 1)

\* nextNodes.find(lower-cased label = parent) || nextNodes.find(label === 'Context')
FindParent(h, arr, parent) ==
    LET i == FindIndex(h, arr, ToLowerCase(parent))
    IN IF i # 0 THEN h.nodeArrs[arr][i] ELSE FindExact(h, arr, "Context")

\* nextLinks.some(l => same pair, either direction)
LinkExists(links, a, b) ==
    \E k \in 1..Len(links) :
        \/ (links[k].source = a /\ links[k].target = b)
        \/ (links[k].source = b /\ links[k].target = a)

\* nextNodes.findIndex(ex => ex.label.toLowerCase() === n.label): the candidate's
\* label is not lower-cased
ExistingNodeIndexRaw(m, n) == FindIndex(m.heap, m.nextNodes, n.label)

\* nextNodes.findIndex(ex => ex.label.toLowerCase() === n.label.toLowerCase())
ExistingNodeIndex(m, n) == FindIndex(m.heap, m.nextNodes, ToLowerCase(n.label))

\* { ...existingNode, status: n.status }: the candidate's status always wins
OverwriteStatus(existingNode, n) == [existingNode EXCEPT !.status = n.status]

\* { ...existingNode, type: n.type, status: 'active' } for every matched node
RefreshFromCandidate(existingNode, n) ==
    [existingNode EXCEPT !.type = n.type, !.status = "active"]

\* { ...existingNode, ...n, status: 'active' }: the upgrade takes the candidate's
\* label and type along
UpgradeWithCandidate(existingNode, n) ==
    IF existingNode.status = "potential" /\ n.status = "active"
    THEN [existingNode EXCEPT !.label = n.label, !.type = n.type, !.status = "active"]
    ELSE existingNode

\* the existing-node branch: { ...existingNode, status: 'active' } or no change
Upgrade(existingNode, n) ==
    IF existingNode.status = "potential" /\ n.status = "active"
    THEN [existingNode EXCEPT !.status = "active"]
    ELSE existingNode

\* a parent search without the root as fallback: nextNodes.find(lower-cased
\* label = parent) alone
ParentNodeNoFallback(m, n) ==
    LET i == FindIndex(m.heap, m.nextNodes, ToLowerCase(n.parent))
    IN IF i # 0 THEN m.heap.nodeArrs[m.nextNodes][i] ELSE 0

\* the parent search: over nextNodes, the new node already pushed
ParentNode(m, n) == FindParent(m.heap, m.nextNodes, n.parent)

\* an existing-node branch that also links the matched node to the candidate's
\* parent, without asking whether the link is there
ExistingBranchRelink(m, n, existingNodeIndex) ==
    LET existingNode == m.heap.objs[m.heap.nodeArrs[m.nextNodes][existingNodeIndex]]
        parentRef == FindParent(m.heap, m.nextNodes, n.parent)
    IN IF parentRef # 0
       THEN [m EXCEPT !.heap.linkArrs[m.nextLinks] =
                Append(@, [source |-> m.heap.objs[parentRef].id,
                           target |-> existingNode.id])]
       ELSE m

\* if (existingNodeIndex !== -1) { ... }: a replaced node is a new object
ExistingBranch(m, n, existingNodeIndex) ==
    LET existingNode == m.heap.objs[m.heap.nodeArrs[m.nextNodes][existingNodeIndex]]
        upgraded == Upgrade(existingNode, n)
    IN IF upgraded # existingNode
       THEN [m EXCEPT !.heap.objs = Append(@, upgraded),
                      !.heap.nodeArrs[m.nextNodes][existingNodeIndex] = Len(m.heap.objs) + 1]
       ELSE m

\* else { ... }: push the new node, look the parent up, push the link
NewBranch(m, n) ==
    LET newNode == [id |-> n.label, label |-> n.label, type |-> n.type,
                    status |-> n.status, group |-> 2]
        pushed == [m EXCEPT !.heap.objs = Append(@, newNode),
                            !.heap.nodeArrs[m.nextNodes] = Append(@, Len(m.heap.objs) + 1)]
        parentRef == ParentNode(pushed, n)
    IN IF parentRef # 0
          /\ ~LinkExists(pushed.heap.linkArrs[pushed.nextLinks],
                         pushed.heap.objs[parentRef].id, newNode.id)
       THEN [pushed EXCEPT !.heap.linkArrs[pushed.nextLinks] =
                Append(@, [source |-> pushed.heap.objs[parentRef].id,
                           target |-> newNode.id])]
       ELSE pushed

\* the body of updates.nodes.forEach, on m = [heap, nextNodes, nextLinks]
MergeNode(m, n) ==
    LET existingNodeIndex == ExistingNodeIndex(m, n)
    IN IF existingNodeIndex # 0
       THEN ExistingBranch(m, n, existingNodeIndex)
       ELSE NewBranch(m, n)

RECURSIVE ForEach(_, _)
ForEach(m, updates) ==
    IF updates = <<>> THEN m ELSE ForEach(MergeNode(m, Head(updates)), Tail(updates))

\* an updater that copies the arrays of INITIAL_STATE, not those of prev
MergeStartFromInitial(h, prev) ==
    LET ns == SpreadNodes(h, INITIAL_STATE.mindMapNodes)
        ls == SpreadLinks(ns.heap, INITIAL_STATE.mindMapLinks)
    IN [heap |-> ls.heap, nextNodes |-> ns.ref, nextLinks |-> ls.ref]

\* the two copies the updater starts with
MergeStart(h, prev) ==
    LET ns == SpreadNodes(h, prev.mindMapNodes)
        ls == SpreadLinks(ns.heap, prev.mindMapLinks)
    IN [heap |-> ls.heap, nextNodes |-> ns.ref, nextLinks |-> ls.ref]

\* the updater passed to setDojoState: heap and state after it returns
Merge(h, prev, updates) ==
    LET m == ForEach(MergeStart(h, prev), updates)
    IN [heap |-> m.heap,
        state |-> [mindMapNodes |-> m.nextNodes, mindMapLinks |-> m.nextLinks]]

RECURSIVE Dedupe(_)
Dedupe(s) ==
    IF s = <<>> THEN <<>>
    ELSE LET d == Dedupe(SubSeq(s, 1, Len(s) - 1))
             x == s[Len(s)]
         IN IF \E i \in 1..Len(d) : d[i] = x THEN d ELSE Append(d, x)

IndexIn(s, x) == CHOOSE i \in 1..Len(s) : s[i] = x

\* Once the updater has returned, only INITIAL_NODES / INITIAL_STATE and the new
\* state are reachable: the rest is dropped and the references renamed in
\* order of appearance (a reference is only ever compared for identity).
Collect(h, st) ==
    LET cur == st.mindMapNodes
        objSeq == Dedupe(h.nodeArrs[1] \o h.nodeArrs[cur])
        renArr(a) == [i \in 1..Len(a) |-> IndexIn(objSeq, a[i])]
    IN [heap |->
          [objs |-> [k \in 1..Len(objSeq) |-> h.objs[objSeq[k]]],
           nodeArrs |-> IF cur = 1 THEN <<renArr(h.nodeArrs[1])>>
                        ELSE <<renArr(h.nodeArrs[1]), renArr(h.nodeArrs[cur])>>,
           linkArrs |-> IF st.mindMapLinks = 1 THEN <<h.linkArrs[1]>>
                        ELSE <<h.linkArrs[1], h.linkArrs[st.mindMapLinks]>>],
        state |-> [mindMapNodes |-> IF cur = 1 THEN 1 ELSE 2,
                   mindMapLinks |-> IF st.mindMapLinks = 1 THEN 1 ELSE 2]]

\* if (updates.nodes && updates.nodes.length > 0) setDojoState(updater)
ApplyUpdates(h, prev, updates) ==
    IF Len(updates) > 0 THEN Merge(h, prev, updates) ELSE [heap |-> h, state |-> prev]

\* triggerGraphUpdate once generateGraphUpdates has answered with `updates`
TriggerGraphUpdate(updates) ==
    /\ LET r == ApplyUpdates(heap, dojoState, updates)
           c == Collect(r.heap, r.state)
       IN /\ heap' = c.heap
          /\ dojoState' = c.state
    /\ UNCHANGED <<selectionVars, historyVars, fnVars, sessionVars, layoutVars>>

(***************************************************************************)
(* computeDepths (MindMap.tsx)                                             *)
(***************************************************************************)
\* adj after linkList.forEach: the targets of each source, in link order
RECURSIVE BuildAdj(_, _, _)
BuildAdj(linkL, adj, k) ==
    IF k > Len(linkL) THEN adj
    ELSE LET s == linkL[k].source
             t == linkL[k].target
             cur == IF s \in DOMAIN adj THEN adj[s] ELSE <<>>
         IN BuildAdj(linkL,
                     [x \in DOMAIN adj \cup {s} |-> IF x = s THEN Append(cur, t) ELSE adj[x]],
                     k + 1)

\* adj[id].forEach(childId => ...) for the node at depth d, on b = [queue,
\* depths, visited, maxDepth] and the record of what ran: the ids pushed on the
\* queue, the ids whose depth was written, and the passes of the while loop
RECURSIVE VisitChildren(_, _, _)
VisitChildren(b, children, d) ==
    IF children = <<>> THEN b
    ELSE LET childId == Head(children)
         IN IF childId \notin b.visited
            THEN VisitChildren(
                    [queue |-> Append(b.queue, [id |-> childId, d |-> d + 1]),
                     depths |-> [x \in DOMAIN b.depths \cup {childId} |->
                                    IF x = childId THEN d + 1 ELSE b.depths[x]],
                     visited |-> b.visited \cup {childId},
                     maxDepth |-> b.maxDepth,
                     pushes |-> Append(b.pushes, childId),
                     writes |-> Append(b.writes, childId),
                     passes |-> b.passes],
                    Tail(children), d)
            ELSE VisitChildren(b, Tail(children), d)

\* a traversal that lets a later link overwrite the depth of a visited child
RECURSIVE VisitChildrenNoVisited(_, _, _)
VisitChildrenNoVisited(b, children, d) ==
    IF children = <<>> THEN b
    ELSE LET childId == Head(children)
         IN VisitChildrenNoVisited(
               [queue |-> IF childId \in b.visited THEN b.queue
                          ELSE Append(b.queue, [id |-> childId, d |-> d + 1]),
                depths |-> [x \in DOMAIN b.depths \cup {childId} |->
                               IF x = childId THEN d + 1 ELSE b.depths[x]],
                visited |-> b.visited \cup {childId},
                maxDepth |-> b.maxDepth,
                pushes |-> IF childId \in b.visited THEN b.pushes
                           ELSE Append(b.pushes, childId),
                writes |-> Append(b.writes, childId),
                passes |-> b.passes],
               Tail(children), d)

\* the forEach over adj[id] of the source
Visit(b, children, d) == VisitChildren(b, children, d)

\* while (queue.length > 0) { ... }
RECURSIVE Bfs(_, _)
Bfs(b, adj) ==
    IF b.queue = <<>> THEN b
    ELSE LET head == Head(b.queue)
             shifted == [b EXCEPT !.queue = Tail(@),
                                  !.maxDepth = IF head.d > @ THEN head.d ELSE @,
                                  !.passes = @ + 1]
         IN IF head.id \in DOMAIN adj
            THEN Bfs(Visit(shifted, adj[head.id], head.d), adj)
            ELSE Bfs(shifted, adj)

\* computeDepths with a visited set that starts empty: new Set()
computeDepthsRootUnvisited(nodeL, linkL) ==
    LET adj == BuildAdj(linkL, <<>>, 1)
        b == Bfs([queue |-> <<[id |-> "Context", d |-> 0]>>,
                  depths |-> [x \in {"Context"} |-> 0],
                  visited |-> {},
                  maxDepth |-> 0,
                  pushes |-> <<"Context">>, writes |-> <<"Context">>,
                  passes |-> 0], adj)
    IN [depths |-> b.depths, maxDepth |-> b.maxDepth,
        pushes |-> b.pushes, writes |-> b.writes, passes |-> b.passes]

\* computeDepths(nodeList, linkList): { depths, maxDepth }, with the record of
\* what ran; nodeList is not read
computeDepths(nodeL, linkL) ==
    LET adj == BuildAdj(linkL, <<>>, 1)
        b == Bfs([queue |-> <<[id |-> "Context", d |-> 0]>>,
                  depths |-> [x \in {"Context"} |-> 0],
                  visited |-> {"Context"},
                  maxDepth |-> 0,
                  pushes |-> <<"Context">>, writes |-> <<"Context">>,
                  passes |-> 0], adj)
    IN [depths |-> b.depths, maxDepth |-> b.maxDepth,
        pushes |-> b.pushes, writes |-> b.writes, passes |-> b.passes]

\* depths[n.id] ?? 0
DepthOrZero(depths, id) == IF id \in DOMAIN depths THEN depths[id] ELSE 0

\* the depth each simulation node is given: nodes.map(n => depths[n.id] ?? 0)
SimulationDepths(nodeL, depths) ==
    [i \in 1..Len(nodeL) |-> DepthOrZero(depths, nodeL[i])]

(***************************************************************************)
(* getPathToRoot (MindMap.tsx)                                             *)
(***************************************************************************)
IterationCap == 100

\* currentLinks.find(l => l.source === currentId): source and target confused
RECURSIVE FindLinkBySource(_, _, _)
FindLinkBySource(currentLinks, currentId, k) ==
    IF k > Len(currentLinks) THEN 0
    ELSE IF currentLinks[k].source = currentId THEN k
    ELSE FindLinkBySource(currentLinks, currentId, k + 1)

\* currentLinks.find(l => l.target === currentId): its index, 0 for undefined
RECURSIVE FindParentLink(_, _, _)
FindParentLink(currentLinks, currentId, k) ==
    IF k > Len(currentLinks) THEN 0
    ELSE IF currentLinks[k].target = currentId THEN k
    ELSE FindParentLink(currentLinks, currentId, k + 1)

\* one pass of the while body that never clears foundParent
LoopBodyKeepFound(p, currentLinks) ==
    LET k == FindParentLink(currentLinks, p.currentId, 1)
    IN IF k # 0 /\ currentLinks[k].source \notin p.path
       THEN [path |-> p.path \cup {currentLinks[k].source},
             currentId |-> currentLinks[k].source,
             foundParent |-> TRUE, iterations |-> p.iterations + 1]
       ELSE [p EXCEPT !.iterations = @ + 1]

\* one pass of the while body, on p = [path, currentId, foundParent, iterations]
LoopBody(p, currentLinks) ==
    LET k == FindParentLink(currentLinks, p.currentId, 1)
    IN IF k # 0 /\ currentLinks[k].source \notin p.path
       THEN [path |-> p.path \cup {currentLinks[k].source},
             currentId |-> currentLinks[k].source,
             foundParent |-> TRUE, iterations |-> p.iterations + 1]
       ELSE [p EXCEPT !.foundParent = FALSE, !.iterations = @ + 1]

\* while (foundParent && iterations < 100) { ... }
RECURSIVE PathLoop(_, _)
PathLoop(p, currentLinks) ==
    IF p.foundParent /\ p.iterations < IterationCap
    THEN PathLoop(LoopBody(p, currentLinks), currentLinks)
    ELSE p

\* getPathToRoot with a path that starts empty: new Set<string>()
getPathToRootEmptyStart(target, currentLinks) ==
    LET p == PathLoop([path |-> {}, currentId |-> target,
                       foundParent |-> TRUE, iterations |-> 0], currentLinks)
    IN [path |-> p.path, iterations |-> p.iterations, last |-> p.currentId]

\* getPathToRoot(targetId, currentLinks): the path, with the iterations the loop
\* ran and the id the walk stood on when it stopped
getPathToRoot(target, currentLinks) ==
    LET p == PathLoop([path |-> {target}, currentId |-> target,
                       foundParent |-> TRUE, iterations |-> 0], currentLinks)
    IN [path |-> p.path, iterations |-> p.iterations, last |-> p.currentId]

(***************************************************************************)
(* The helper functions on arbitrary link lists                            *)
(***************************************************************************)
FnIds == {"Context", "Travel", "Food", "Recipes"}
FnLinks == [source : FnIds, target : FnIds]
LinkLists == ListsUpTo(FnLinks, MaxLinks)
NodeLists == {<<"Context">>, <<"Context", "Travel", "Food">>,
              <<"Context", "Travel", "Food", "Recipes">>}

\* the layout effect's first step: depths of the graph it was given
ComputeDepthsCall(nodeL) ==
    /\ fnPc = "ready"
    /\ LET r == computeDepths(nodeL, linkList)
       IN depthsOut' = [depths |-> r.depths, maxDepth |-> r.maxDepth,
                        simulation |-> SimulationDepths(nodeL, r.depths),
                        pushes |-> r.pushes, writes |-> r.writes,
                        passes |-> r.passes]
    /\ nodeList' = nodeL
    /\ fnPc' = "depths"
    /\ UNCHANGED <<selectionVars, historyVars, graphVars, sessionVars, layoutVars,
                   linkList, targetId, pathOut>>

\* highlightSet for a selected node
GetPathToRootCall(id) ==
    /\ fnPc = "ready"
    /\ pathOut' = getPathToRoot(id, linkList)
    /\ targetId' = id
    /\ fnPc' = "path"
    /\ UNCHANGED <<selectionVars, historyVars, graphVars, sessionVars, layoutVars,
                   linkList, nodeList, depthsOut>>

\* no handler has run: nothing waits, nothing has been merged
SessionIdle ==
    /\ turns = EmptyBag /\ inFlight = EmptyBag /\ isProcessing = FALSE
    /\ applied = <<>> /\ lastUpdate = NoUpdate /\ cleared = FALSE

\* no conversation is modelled
HistoryIdle ==
    conversationHistory = <<>> /\ textTurns = {} /\ voiceTurns = {} /\ clock = 0

\* nothing is selected: selectedNode is null (<<>>; <<node>> holds a node)
SelectionIdle == selectedNode = <<>> /\ highlightSet = {}

\* the graph is not laid out
LayoutIdle == simulations = <<>> /\ nodePositions = <<>> /\ layoutStep = "none"

InitFn ==
    /\ heap = InitialHeap
    /\ dojoState = INITIAL_STATE
    /\ SessionIdle
    /\ LayoutIdle
    /\ SelectionIdle
    /\ HistoryIdle
    /\ fnPc = "ready"
    /\ linkList \in LinkLists
    /\ nodeList = <<>> /\ targetId = None
    /\ depthsOut = None /\ pathOut = None

NextFn ==
    \/ \E nodeL \in NodeLists : ComputeDepthsCall(nodeL)
    \/ \E id \in FnIds : GetPathToRootCall(id)

SpecFn == InitFn /\ [][NextFn]_vars

FnIdle ==
    /\ fnPc = "idle" /\ linkList = <<>> /\ nodeList = <<>> /\ targetId = None
    /\ depthsOut = None /\ pathOut = None

Init ==
    /\ heap = InitialHeap
    /\ dojoState = INITIAL_STATE
    /\ FnIdle
    /\ SessionIdle
    /\ LayoutIdle
    /\ SelectionIdle
    /\ HistoryIdle

Next == \E updates \in UpdateLists : TriggerGraphUpdate(updates)

Spec == Init /\ [][Next]_vars

(***************************************************************************)
(* The session: handlers, overlapping graph updates, reset (App.tsx)       *)
(***************************************************************************)
MaxGraphUpdates == 2    \* graph updates under way or merged since the last reset

Origins == {"text", "voice"}

\* the proposals of a session: a topic, and a tangent below it
SessionCandidates ==
    {c \in Candidates : \/ (c.label = "Travel" /\ c.status = "active")
                        \/ (c.label = "Food" /\ c.status = "potential" /\ c.parent = "travel")}

SessionLists == {<<>>} \cup {<<c>> : c \in SessionCandidates}

\* what the extraction request does: it throws, or it answers with a text that
\* is empty, is not JSON, is an object without nodes, or is an object with nodes
Responses ==
    {[throws |-> TRUE, doc |-> "none", nodes |-> <<>>]}
    \cup {[throws |-> FALSE, doc |-> d, nodes |-> <<>>] : d \in {"empty", "garbage", "noNodes"}}
    \cup {[throws |-> FALSE, doc |-> "nodes", nodes |-> l] : l \in SessionLists}

\* JSON.parse(response.text || "{ \"nodes\": [] }"); "throws" stands for the
\* SyntaxError
JsonParse(response) ==
    CASE response.doc = "empty" -> [nodes |-> <<>>]
      [] response.doc = "garbage" -> "throws"
      [] response.doc = "noNodes" -> [summary |-> "none"]
      [] OTHER -> [nodes |-> response.nodes]

\* generateGraphUpdates: try { ... return JSON.parse(...) } catch { return { nodes: [] } }
generateGraphUpdates(response) ==
    IF response.throws \/ response.doc = "garbage" THEN [nodes |-> <<>>]
    ELSE JsonParse(response)

\* if (updates.nodes): an empty array is truthy
HasNodesTruthy(updates) == "nodes" \in DOMAIN updates

\* if (updates.nodes && updates.nodes.length > 0)
HasNodes(updates) == "nodes" \in DOMAIN updates /\ Len(updates.nodes) > 0

\* the dojoState a handler and its triggerGraphUpdate close over
Closure == [nodes |-> Nodes, links |-> Links]

\* dojoState.mindMapNodes.filter(n => n.status === 'active').map(n => n.label)
ActiveLabels(closure) ==
    LET active == SelectSeq(closure.nodes, LAMBDA n : n.status = "active")
    IN [i \in 1..Len(active) |-> active[i].label]

\* setDojoState({ ...dojoState, ... }): the merge starts from the state the call
\* closed over
ClosureState(call) ==
    [heap |-> [objs |-> call.closure.nodes,
               nodeArrs |-> << <<1>>, [i \in 1..Len(call.closure.nodes) |-> i] >>,
               linkArrs |-> << <<>>, call.closure.links >>],
     state |-> [mindMapNodes |-> 2, mindMapLinks |-> 2]]

\* setDojoState({ ...INITIAL_STATE, ... }): the merge starts from the initial
\* state
StartState(call) == [heap |-> heap, state |-> INITIAL_STATE]

\* setDojoState(prev => ...): React hands the updater the state of the moment
PrevState(call) == [heap |-> heap, state |-> dojoState]

Budget == BagCardinality(turns) + BagCardinality(inFlight) + Len(applied)

\* handleSendMessage / handleAgentStoppedSpeaking up to the await of the
\* conversation model; the chat input is disabled while isProcessing
StartTurn(origin) ==
    /\ origin = "text" => ~isProcessing
    /\ Budget < MaxGraphUpdates
    /\ turns' = turns (+) SetToBag({[origin |-> origin, closure |-> Closure]})
    /\ isProcessing' = TRUE
    /\ cleared' = FALSE
    /\ UNCHANGED <<selectionVars, historyVars, graphVars, fnVars, layoutVars,
                   inFlight, applied, lastUpdate>>

\* the rest of the handler: triggerGraphUpdate is called and not awaited (it
\* runs up to its own await), then finally { setIsProcessing(false) }; if the
\* conversation model failed only the finally block runs
ReplyArrives(turn, ok) ==
    /\ BagIn(turn, turns)
    /\ turns' = turns (-) SetToBag({turn})
    /\ inFlight' = IF ok THEN inFlight (+) SetToBag({turn}) ELSE inFlight
    /\ isProcessing' = FALSE
    /\ UNCHANGED <<selectionVars, historyVars, graphVars, fnVars, layoutVars,
                   applied, lastUpdate, cleared>>

\* triggerGraphUpdate after its await: the guard, and the updater React runs
ExtractionAnswers(call, response) ==
    /\ BagIn(call, inFlight)
    /\ inFlight' = inFlight (-) SetToBag({call})
    /\ LET updates == generateGraphUpdates(response)
       IN IF HasNodes(updates)
          THEN LET prev == PrevState(call)
                   r == Merge(prev.heap, prev.state, updates.nodes)
                   c == Collect(r.heap, r.state)
               IN /\ heap' = c.heap
                  /\ dojoState' = c.state
                  /\ applied' = Append(applied, updates.nodes)
                  /\ lastUpdate' = [origin |-> call.origin, closure |-> call.closure,
                                    throws |-> response.throws, doc |-> response.doc,
                                    nodes |-> response.nodes, merged |-> TRUE]
          ELSE /\ UNCHANGED <<graphVars, applied>>
               /\ lastUpdate' = [origin |-> call.origin, closure |-> call.closure,
                                 throws |-> response.throws, doc |-> response.doc,
                                 nodes |-> response.nodes, merged |-> FALSE]
    /\ UNCHANGED <<selectionVars, historyVars, fnVars, layoutVars,
                   turns, isProcessing, cleared>>

\* handleReset: setDojoState({ ...INITIAL_STATE, conversationHistory: [] })
HandleReset ==
    /\ LET c == Collect(heap, INITIAL_STATE)
       IN heap' = c.heap /\ dojoState' = c.state
    /\ applied' = <<>>
    /\ cleared' = TRUE
    /\ UNCHANGED <<selectionVars, historyVars, fnVars, layoutVars,
                   turns, inFlight, isProcessing, lastUpdate>>

InitSession ==
    /\ heap = InitialHeap
    /\ dojoState = INITIAL_STATE
    /\ FnIdle
    /\ SessionIdle
    /\ LayoutIdle
    /\ SelectionIdle
    /\ HistoryIdle

NextSession ==
    \/ \E origin \in Origins : StartTurn(origin)
    \/ \E turn \in BagToSet(turns) : \E ok \in BOOLEAN : ReplyArrives(turn, ok)
    \/ \E call \in BagToSet(inFlight) : \E response \in Responses :
          ExtractionAnswers(call, response)
    \/ HandleReset

SpecSession == InitSession /\ [][NextSession]_vars

(***************************************************************************)
(* The layout effect of MindMap.tsx: simulations and the position cache    *)
(***************************************************************************)
MaxTicks == 2           \* ticks a simulation runs before its alpha has decayed

Y_SPACING == 120
PADDING_TOP == 60
TickPadding == 20
DefaultWidth == 800
MinRectWidth == 100
CharWidth == 7
RectPadding == 24

\* containerRef.current.clientWidth, 0 while the container has no width
ClientWidths == {0, 120}

\* the proposals the layout is run for: a topic, and a tangent with a long label
LayoutCandidates ==
    {c \in SessionCandidates : c.label = "Travel"}
    \cup {[label |-> "International food", type |-> "entity", status |-> "potential",
           parent |-> "travel", description |-> "Food on the way"]}

LayoutLists == {<<c>> : c \in LayoutCandidates}

\* where the forces of d3 can leave a node after one step: left of and above
\* the container, inside it, right of and below it
Pulls ==
    {[x |-> -40, y |-> -40, vx |-> -8, vy |-> -8],
     [x |-> 200, y |-> 200, vx |-> 2, vy |-> 2],
     [x |-> 1000, y |-> 1000, vx |-> 8, vy |-> 8]}

Max(a, b) == IF a >= b THEN a ELSE b
Min(a, b) == IF a <= b THEN a ELSE b

\* n / 2, for the even numbers of the model
Half(n) == n \div 2

\* containerRef.current.clientWidth || 800
ContainerWidth(clientWidth) == IF clientWidth = 0 THEN DefaultWidth ELSE clientWidth

\* Math.max(100, charCount * 7 + 24)
RectWidth(label) == Max(MinRectWidth, Len(label) * CharWidth + RectPadding)

\* (depth * Y_SPACING) + PADDING_TOP
TierY(depth) == (depth * Y_SPACING) + PADDING_TOP

\* y: oldPos ? oldPos.y : 50, whatever the depth
InitialYTop(depth) == 50

\* the y of a node that has no cached position
InitialY(depth) == TierY(depth)

\* a simulation node built without looking at the cache
ColdNode(n, cache, containerWidth, depth) ==
    [id |-> n.id, x |-> Half(containerWidth), y |-> InitialY(depth), vx |-> 0, vy |-> 0,
     width |-> RectWidth(n.label), targetY |-> TierY(depth)]

\* nodes.map(n => ({ ...n, x, y, vx, vy })), with the width node.each gives the
\* datum and the target of forceY
SimulationNode(n, cache, containerWidth, depth) ==
    LET hasOld == n.id \in DOMAIN cache
    IN [id |-> n.id,
        x |-> IF hasOld THEN cache[n.id].x ELSE Half(containerWidth),
        y |-> IF hasOld THEN cache[n.id].y ELSE InitialY(depth),
        vx |-> IF hasOld THEN cache[n.id].vx ELSE 0,
        vy |-> IF hasOld THEN cache[n.id].vy ELSE 0,
        width |-> RectWidth(n.label),
        targetY |-> TierY(depth)]

\* d3.forceSimulation(simulationNodes) for the graph (nodeL, linkL)
NewSimulation(nodeL, linkL, cache, clientWidth) ==
    LET depths == computeDepths(nodeL, linkL).depths
        containerWidth == ContainerWidth(clientWidth)
    IN [running |-> TRUE,
        ticksLeft |-> MaxTicks,
        containerWidth |-> containerWidth,
        nodes |-> [i \in 1..Len(nodeL) |->
                     SimulationNode(nodeL[i], cache, containerWidth,
                                    DepthOrZero(depths, nodeL[i].id))]]

\* an effect that returns no cleanup: the simulation it started keeps running
NoCleanup(sims) == sims

\* return () => { simulation.stop() }: the effect's own simulation, the last
\* one started, is stopped; a stopped simulation is not kept
Cleanup(sims) == IF sims = <<>> THEN sims ELSE SubSeq(sims, 1, Len(sims) - 1)

\* what a run of the effect finds: a simulation still running ("restart"), or
\* one that has stopped by itself ("effect")
EffectKind(sims) ==
    IF sims # <<>> /\ sims[Len(sims)].running THEN "restart" ELSE "effect"

\* the effect runs again: cleanup of the previous run, then a new simulation
RunEffect(sims, nodeL, linkL, cache, clientWidth) ==
    Append(Cleanup(sims), NewSimulation(nodeL, linkL, cache, clientWidth))

\* d.x = Math.max(w/2 + padding, Math.min(containerWidth - w/2 - padding, d.x))
ClampX(d, containerWidth) ==
    Max(Half(d.width) + TickPadding,
        Min(containerWidth - Half(d.width) - TickPadding, d.x))

\* the tick handler for one datum: clamp x, leave y as it is
TickNode(d, containerWidth) == [d EXCEPT !.x = ClampX(d, containerWidth)]

\* nodePositions.current.set(d.id, { x, y, vx, vy }) for every datum
RECURSIVE WriteCache(_, _, _)
WriteCache(cache, ds, k) ==
    IF k > Len(ds) THEN cache
    ELSE LET d == ds[k]
             entry == [x |-> d.x, y |-> d.y, vx |-> d.vx, vy |-> d.vy]
         IN WriteCache([id \in DOMAIN cache \cup {d.id} |->
                           IF id = d.id THEN entry ELSE cache[id]], ds, k + 1)

\* a merge is applied and the effect runs for the new node and link arrays
MergeAndLayout(updates, clientWidth) ==
    /\ LET r == ApplyUpdates(heap, dojoState, updates)
           c == Collect(r.heap, r.state)
       IN /\ heap' = c.heap
          /\ dojoState' = c.state
          /\ simulations' = RunEffect(simulations, NodesOf(c.heap, c.state),
                                      LinksOf(c.heap, c.state), nodePositions, clientWidth)
    /\ layoutStep' = EffectKind(simulations)
    /\ UNCHANGED <<selectionVars, historyVars, fnVars, sessionVars, nodePositions>>

\* handleReset, and the effect runs for INITIAL_NODES
ResetAndLayout(clientWidth) ==
    /\ dojoState # INITIAL_STATE
    /\ LET c == Collect(heap, INITIAL_STATE)
       IN /\ heap' = c.heap
          /\ dojoState' = c.state
          /\ simulations' = RunEffect(simulations, NodesOf(c.heap, c.state),
                                      LinksOf(c.heap, c.state), nodePositions, clientWidth)
    /\ layoutStep' = EffectKind(simulations)
    /\ UNCHANGED <<selectionVars, historyVars, fnVars, sessionVars, nodePositions>>

\* one step of simulation k: the forces leave datum i at `pull`, then the tick
\* handler clamps every datum and writes the cache; after its last step the
\* simulation stops by itself
Tick(k, i, pull) ==
    /\ k \in 1..Len(simulations)
    /\ simulations[k].running
    /\ i \in 1..Len(simulations[k].nodes)
    /\ LET sim == simulations[k]
           moved == [sim.nodes EXCEPT ![i] = [@ EXCEPT !.x = pull.x, !.y = pull.y,
                                                       !.vx = pull.vx, !.vy = pull.vy]]
           ticked == [j \in 1..Len(moved) |-> TickNode(moved[j], sim.containerWidth)]
       IN /\ simulations' = [simulations EXCEPT ![k] =
                                [sim EXCEPT !.nodes = ticked,
                                            !.ticksLeft = @ - 1,
                                            !.running = sim.ticksLeft > 1]]
          /\ nodePositions' = WriteCache(nodePositions, ticked, 1)
    /\ layoutStep' = "tick"
    /\ UNCHANGED <<selectionVars, historyVars, graphVars, fnVars, sessionVars>>

\* the component has mounted: the effect has run once for INITIAL_NODES
InitLayout ==
    /\ heap = InitialHeap
    /\ dojoState = INITIAL_STATE
    /\ FnIdle
    /\ SessionIdle
    /\ SelectionIdle
    /\ HistoryIdle
    /\ nodePositions = <<>>
    /\ \E clientWidth \in ClientWidths :
          simulations = RunEffect(<<>>, NodesOf(InitialHeap, INITIAL_STATE),
                                  LinksOf(InitialHeap, INITIAL_STATE), <<>>, clientWidth)
    /\ layoutStep = "mount"

NextLayout ==
    \/ \E updates \in LayoutLists : \E clientWidth \in ClientWidths :
          MergeAndLayout(updates, clientWidth)
    \/ \E clientWidth \in ClientWidths : ResetAndLayout(clientWidth)
    \/ \E k \in 1..Len(simulations) : \E i \in 1..Len(simulations[k].nodes) :
          \E pull \in Pulls : Tick(k, i, pull)

SpecLayout == InitLayout /\ [][NextLayout]_vars
(***************************************************************************)
(* The layout effect of the second MindMap component (MindMap.tsx, from    *)
(* line 378): d3 is handed the props                                       *)
(***************************************************************************)
\* clientWidth and clientHeight of the container: not laid out yet, or laid out
ClientSizes == {[width |-> 0, height |-> 0], [width |-> 800, height |-> 600]}

NodeRadius == 20

\* the ids of the nodes the layout is run for
LayoutIds == {"Context"} \cup {c.label : c \in LayoutCandidates}

\* A link end is a string in the graph state. d3 replaces it by the node
\* object with that id; the model writes the reference to that object as a
\* string that is no id, so that it differs from every id as an object does.
ObjectOf(id) ==
    CASE id = "Context" -> "object Context"
      [] id = "Travel" -> "object Travel"
      [] id = "International food" -> "object International food"
      [] OTHER -> "object"

\* typeof end === 'object'
IsObject(end) == end \in {ObjectOf(id) : id \in LayoutIds}

\* forceLink initialize: if (typeof link.source !== "object") link.source =
\* find(nodeById, link.source), the same for target
ResolveLink(l) ==
    [source |-> IF IsObject(l.source) THEN l.source ELSE ObjectOf(l.source),
     target |-> IF IsObject(l.target) THEN l.target ELSE ObjectOf(l.target)]

\* where forceSimulation puts a node that has no x or y: on a spiral round the
\* origin, by its index (rounded)
Phyllotaxis(index) ==
    CASE index = 0 -> [x |-> 7, y |-> 0]
      [] index = 1 -> [x |-> -9, y |-> 8]
      [] OTHER -> [x |-> 1, y |-> -16]

\* forceSimulation initializeNodes for one node object: index is set, x and y
\* if they are not numbers, vx and vy if they are not numbers
InitializeNode(node, index) ==
    LET placed == IF "x" \in DOMAIN node /\ "y" \in DOMAIN node
                  THEN [x |-> node.x, y |-> node.y]
                  ELSE Phyllotaxis(index)
        moving == IF "vx" \in DOMAIN node /\ "vy" \in DOMAIN node
                  THEN [vx |-> node.vx, vy |-> node.vy]
                  ELSE [vx |-> 0, vy |-> 0]
    IN [index |-> index] @@ placed @@ moving @@ node

\* d3.forceSimulation(nodes) and d3.forceLink(links) on the arrays of the state
\* st: the node objects and the links themselves are written
SimulateInPlace(h, st) ==
    LET arr == h.nodeArrs[st.mindMapNodes]
    IN [h EXCEPT
          !.objs = [o \in 1..Len(h.objs) |->
                      IF \E i \in 1..Len(arr) : arr[i] = o
                      THEN InitializeNode(h.objs[o],
                                          (CHOOSE i \in 1..Len(arr) : arr[i] = o) - 1)
                      ELSE h.objs[o]],
          !.linkArrs[st.mindMapLinks] =
              [k \in 1..Len(h.linkArrs[st.mindMapLinks]) |->
                  ResolveLink(h.linkArrs[st.mindMapLinks][k])]]

\* the simulation the effect starts
SimulationOfProps(size) ==
    [running |-> TRUE, ticksLeft |-> MaxTicks, width |-> size.width,
     height |-> size.height]

\* d.x = Math.max(r, Math.min(width - r, d.x)), the same for y with height
ClampInPlace(node, sim) ==
    [node EXCEPT !.x = Max(NodeRadius, Min(sim.width - NodeRadius, @)),
                 !.y = Max(NodeRadius, Min(sim.height - NodeRadius, @))]

\* a merge is applied and the effect runs for the new props: the simulation of
\* the previous run is stopped, a new one is made of nodes and links
MergeAndSimulate(updates, size) ==
    /\ LET r == ApplyUpdates(heap, dojoState, updates)
           c == Collect(r.heap, r.state)
       IN /\ heap' = SimulateInPlace(c.heap, c.state)
          /\ dojoState' = c.state
    /\ simulations' = <<SimulationOfProps(size)>>
    /\ layoutStep' = EffectKind(simulations)
    /\ UNCHANGED <<selectionVars, historyVars, fnVars, sessionVars, nodePositions>>

\* one step of the simulation: the forces leave node i at `pull`, then the tick
\* handler clamps every node; the nodes are the node objects of the state
TickInPlace(i, pull) ==
    /\ simulations # <<>>
    /\ simulations[1].running
    /\ i \in 1..Len(Nodes)
    /\ LET sim == simulations[1]
           arr == heap.nodeArrs[dojoState.mindMapNodes]
           moved == [heap.objs EXCEPT ![arr[i]] =
                        [@ EXCEPT !.x = pull.x, !.y = pull.y,
                                  !.vx = pull.vx, !.vy = pull.vy]]
       IN /\ heap' = [heap EXCEPT !.objs =
                         [o \in 1..Len(moved) |->
                             IF \E j \in 1..Len(arr) : arr[j] = o
                             THEN ClampInPlace(moved[o], sim) ELSE moved[o]]]
          /\ simulations' = <<[sim EXCEPT !.ticksLeft = @ - 1,
                                          !.running = sim.ticksLeft > 1]>>
    /\ layoutStep' = "tick"
    /\ UNCHANGED <<selectionVars, historyVars, dojoState, fnVars, sessionVars,
                   nodePositions>>

\* the component has mounted: the effect has run once for INITIAL_NODES
InitInPlace ==
    /\ heap = SimulateInPlace(InitialHeap, INITIAL_STATE)
    /\ dojoState = INITIAL_STATE
    /\ FnIdle
    /\ SessionIdle
    /\ SelectionIdle
    /\ HistoryIdle
    /\ nodePositions = <<>>
    /\ \E size \in ClientSizes : simulations = <<SimulationOfProps(size)>>
    /\ layoutStep = "mount"

NextInPlace ==
    \/ \E updates \in LayoutLists : \E size \in ClientSizes :
          MergeAndSimulate(updates, size)
    \/ \E i \in 1..Len(Nodes) : \E pull \in Pulls : TickInPlace(i, pull)

SpecInPlace == InitInPlace /\ [][NextInPlace]_vars

(***************************************************************************)
(* The selection of MindMap.tsx: selectedNode and highlightSet             *)
(***************************************************************************)
\* a memo that highlights the root when nothing is selected
HighlightSetOrRoot(selected, currentLinks) ==
    getPathToRoot(IF selected = <<>> THEN "Context" ELSE selected[1].id, currentLinks).path

\* useMemo(() => selectedNode ? getPathToRoot(selectedNode.id, links) : new Set())
HighlightSet(selected, currentLinks) ==
    IF selected = <<>> THEN {} ELSE getPathToRoot(selected[1].id, currentLinks).path

\* nodes.find(n => n.id === id): the place of the first node with the id, or 0
RECURSIVE FindById(_, _, _)
FindById(nodeL, id, i) ==
    IF i > Len(nodeL) THEN 0
    ELSE IF nodeL[i].id = id THEN i
    ELSE FindById(nodeL, id, i + 1)

\* the click handler of a node: setSelectedNode(original), and the render that
\* follows. The state holds the object found; nothing writes to a node object
\* once it is in a node array, so the object is what it was when clicked.
SelectNode(d) ==
    /\ d \in 1..Len(Nodes)
    /\ LET original == FindById(Nodes, Nodes[d].id, 1)
       IN /\ original # 0
          /\ selectedNode' = <<Nodes[original]>>
          /\ highlightSet' = HighlightSet(<<Nodes[original]>>, Links)
    /\ UNCHANGED <<historyVars, graphVars, fnVars, sessionVars, layoutVars>>

\* handleBgClick and the close button of the card: setSelectedNode(null)
ClearSelection ==
    /\ selectedNode # <<>>
    /\ selectedNode' = <<>>
    /\ highlightSet' = HighlightSet(<<>>, Links)
    /\ UNCHANGED <<historyVars, graphVars, fnVars, sessionVars, layoutVars>>

\* a graph update, and the render that follows with the new links
MergeAndRender(updates) ==
    /\ LET r == ApplyUpdates(heap, dojoState, updates)
           c == Collect(r.heap, r.state)
       IN /\ heap' = c.heap
          /\ dojoState' = c.state
          /\ highlightSet' = HighlightSet(selectedNode, LinksOf(c.heap, c.state))
    /\ UNCHANGED <<historyVars, selectedNode, fnVars, sessionVars, layoutVars>>

InitSelection ==
    /\ heap = InitialHeap
    /\ dojoState = INITIAL_STATE
    /\ FnIdle
    /\ SessionIdle
    /\ LayoutIdle
    /\ SelectionIdle
    /\ HistoryIdle

NextSelection ==
    \/ \E d \in 1..Len(Nodes) : SelectNode(d)
    \/ ClearSelection
    \/ \E updates \in SplitLists : MergeAndRender(updates)

SpecSelection == InitSelection /\ [][NextSelection]_vars

(***************************************************************************)
(* The conversation history (App.tsx): a text turn among voice events      *)
(***************************************************************************)
MaxMessages == 4        \* messages created after the greeting

\* a ChatMessage; translatedText is None while the field is absent
Message(role, text, timestamp, translatedText) ==
    [role |-> role, text |-> text, timestamp |-> timestamp,
     translatedText |-> translatedText]

\* INITIAL_STATE.conversationHistory: the greeting of the model
InitialHistory == <<Message("model", "Hello!", 0, "Hello!")>>

\* handleSendMessage up to its await: the user message is appended, the chat
\* input is disabled while isProcessing
SendMessage ==
    /\ ~isProcessing
    /\ clock < MaxMessages
    /\ LET userMsg == Message("user", "typed", clock + 1, None)
       IN /\ conversationHistory' = Append(conversationHistory, userMsg)
          /\ textTurns' = textTurns \cup {userMsg}
    /\ clock' = clock + 1
    /\ isProcessing' = TRUE
    /\ UNCHANGED <<graphVars, fnVars, layoutVars, selectionVars, voiceTurns,
                   turns, inFlight, applied, lastUpdate, cleared>>

\* newHistory[newHistory.length - 1] = updatedUserMsg; on an empty array the
\* assignment makes no element
ReplaceLast(history, updatedUserMsg) ==
    IF history = <<>> THEN history
    ELSE [history EXCEPT ![Len(history)] = updatedUserMsg]

\* the rest of handleSendMessage: the updater that annotates the user message
\* and appends the reply, then finally { setIsProcessing(false) }; if
\* generateDojoResponse failed only the finally block runs
ResponseArrives(userMsg, ok) ==
    /\ userMsg \in textTurns
    /\ textTurns' = textTurns \ {userMsg}
    /\ ok => clock < MaxMessages
    /\ IF ok
       THEN LET updatedUserMsg == [userMsg EXCEPT !.translatedText = "english"]
                newDojoMsg == Message("model", "reply", clock + 1, "english")
            IN /\ conversationHistory' =
                     Append(ReplaceLast(conversationHistory, updatedUserMsg), newDojoMsg)
               /\ clock' = clock + 1
       ELSE UNCHANGED <<conversationHistory, clock>>
    /\ isProcessing' = FALSE
    /\ UNCHANGED <<graphVars, fnVars, layoutVars, selectionVars, voiceTurns,
                   turns, inFlight, applied, lastUpdate, cleared>>

\* handleAgentStartedSpeaking with a transcript: the spoken user message is
\* appended; without one (if (finalText) fails) nothing happens
AgentStartedSpeaking ==
    /\ clock < MaxMessages
    /\ conversationHistory' =
          Append(conversationHistory, Message("user", "spoken", clock + 1, None))
    /\ clock' = clock + 1
    /\ UNCHANGED <<graphVars, fnVars, layoutVars, selectionVars, sessionVars,
                   textTurns, voiceTurns>>

\* handleAgentStoppedSpeaking up to its await: the agent message is appended;
\* without a transcript the handler returns at once
AgentStoppedSpeaking ==
    /\ clock < MaxMessages
    /\ LET agentMsg == Message("model", "spoken reply", clock + 1, None)
       IN /\ conversationHistory' = Append(conversationHistory, agentMsg)
          /\ voiceTurns' = voiceTurns \cup {agentMsg}
    /\ clock' = clock + 1
    /\ isProcessing' = TRUE
    /\ UNCHANGED <<graphVars, fnVars, layoutVars, selectionVars, textTurns,
                   turns, inFlight, applied, lastUpdate, cleared>>

\* hist.map(m => m.role).lastIndexOf(role): the place, or 0 for -1
LastIndexOf(history, role) ==
    LET places == {i \in 1..Len(history) : history[i].role = role}
    IN IF places = {} THEN 0 ELSE CHOOSE i \in places : \A j \in places : j <= i

\* hist[idx] = { ...hist[idx], translatedText } if idx !== -1
Annotate(history, idx) ==
    IF idx = 0 THEN history ELSE [history EXCEPT ![idx].translatedText = "english"]

\* the rest of handleAgentStoppedSpeaking: the updater that annotates the last
\* user message and the last model message, then the finally block
AnalysisArrives(agentMsg, ok) ==
    /\ agentMsg \in voiceTurns
    /\ voiceTurns' = voiceTurns \ {agentMsg}
    /\ conversationHistory' =
          IF ok
          THEN LET hist == Annotate(conversationHistory,
                                    LastIndexOf(conversationHistory, "user"))
               IN Annotate(hist, LastIndexOf(hist, "model"))
          ELSE conversationHistory
    /\ isProcessing' = FALSE
    /\ UNCHANGED <<graphVars, fnVars, layoutVars, selectionVars, textTurns, clock,
                   turns, inFlight, applied, lastUpdate, cleared>>

InitHistory ==
    /\ heap = InitialHeap
    /\ dojoState = INITIAL_STATE
    /\ FnIdle
    /\ SessionIdle
    /\ LayoutIdle
    /\ SelectionIdle
    /\ conversationHistory = InitialHistory
    /\ textTurns = {} /\ voiceTurns = {} /\ clock = 0

NextHistory ==
    \/ SendMessage
    \/ \E userMsg \in textTurns : \E ok \in BOOLEAN : ResponseArrives(userMsg, ok)
    \/ AgentStartedSpeaking
    \/ AgentStoppedSpeaking
    \/ \E agentMsg \in voiceTurns : \E ok \in BOOLEAN : AnalysisArrives(agentMsg, ok)

SpecHistory == InitHistory /\ [][NextHistory]_vars

(***************************************************************************)
(* Properties of the merge                                                 *)
(***************************************************************************)
\* the graph (node records, links) a heap and a state stand for
GraphOf(r) == [nodes |-> NodesOf(r.heap, r.state), links |-> LinksOf(r.heap, r.state)]

\* the graph after the candidate list `updates` is merged into the current state
Merged(updates) == ApplyUpdates(heap, dojoState, updates)

\* C1: merge is idempotent: from every reachable graph and for every candidate
\* list, merging the list a second time into the result of the first merge
\* gives the same node list and the same link list, in the same order.
C1_MergeIdempotent ==
    \A updates \in UpdateLists :
        LET once == Merged(updates)
            twice == ApplyUpdates(once.heap, once.state, updates)
        IN GraphOf(twice) = GraphOf(once)

\* a graph and a list whose first merge both creates a node and promotes one
C1_Witness ==
    \E updates \in UpdateLists :
        LET once == GraphOf(Merged(updates))
        IN /\ Len(Nodes) > 1
           /\ Len(once.nodes) > Len(Nodes)
           /\ \E i \in 1..Len(Nodes) :
                Nodes[i].status = "potential" /\ once.nodes[i].status = "active"

\* C2: status is monotonic: in every step a node that is active stays at its
\* place with status active, and a status that changes goes from potential to
\* active.
C2_StatusMonotonic ==
    [][\A i \in 1..Len(Nodes) :
          /\ i <= Len(Nodes')
          /\ Nodes'[i].id = Nodes[i].id
          /\ Nodes[i].status = "active" => Nodes'[i].status = "active"
          /\ Nodes'[i].status # Nodes[i].status =>
                Nodes[i].status = "potential" /\ Nodes'[i].status = "active"]_vars

\* an active node that a candidate of the model proposes again as potential,
\* next to a node that is still potential
C2_Witness ==
    /\ \E i \in 2..Len(Nodes) : \E n \in Candidates :
          /\ Nodes[i].status = "active"
          /\ ToLowerCase(n.label) = ToLowerCase(Nodes[i].label)
          /\ n.status = "potential"
    /\ \E j \in 2..Len(Nodes) : Nodes[j].status = "potential"

\* C3: case-insensitive dedup: no two nodes have labels that are equal when
\* lower-cased, and no two nodes share an id.
C3_CaseInsensitiveDedup ==
    \A i, j \in 1..Len(Nodes) :
        i # j => /\ ToLowerCase(Nodes[i].label) # ToLowerCase(Nodes[j].label)
                 /\ Nodes[i].id # Nodes[j].id

\* a graph that holds the lower-case spelling "travel", which the candidate
\* "Travel" of the same or a later list meets
C3_Witness ==
    /\ Len(Nodes) >= 3
    /\ \E i \in 1..Len(Nodes) : Nodes[i].label = "travel"
    /\ \E n \in Candidates : n.label = "Travel"

\* C4: root invariant: exactly one node is the root "Context" (no other node
\* has that id or that label in any letter case), it is the unchanged
\* INITIAL_NODES record (type root, status active), and computeDepths gives
\* it depth 0.
C4_RootInvariant ==
    /\ Cardinality({i \in 1..Len(Nodes) : ToLowerCase(Nodes[i].label) = "context"
                                            \/ Nodes[i].id = "Context"}) = 1
    /\ \E i \in 1..Len(Nodes) : Nodes[i] = RootObject
    /\ LET r == computeDepths([i \in 1..Len(Nodes) |-> Nodes[i].id], Links)
       IN "Context" \in DOMAIN r.depths /\ r.depths["Context"] = 0

\* a merge has run whose candidates were all labelled "context": the state holds
\* a new node array, and its only entry is still the root object of INITIAL_NODES
C4_Witness ==
    /\ dojoState.mindMapNodes # INITIAL_STATE.mindMapNodes
    /\ Len(Nodes) = 1
    /\ heap.nodeArrs[dojoState.mindMapNodes] = heap.nodeArrs[INITIAL_STATE.mindMapNodes]

\* every array and every object of heap h has the same contents in heap g
SameContents(h, g) ==
    /\ Len(g.objs) >= Len(h.objs)
    /\ Len(g.nodeArrs) >= Len(h.nodeArrs)
    /\ Len(g.linkArrs) >= Len(h.linkArrs)
    /\ \A o \in 1..Len(h.objs) : g.objs[o] = h.objs[o]
    /\ \A a \in 1..Len(h.nodeArrs) : g.nodeArrs[a] = h.nodeArrs[a]
    /\ \A a \in 1..Len(h.linkArrs) : g.linkArrs[a] = h.linkArrs[a]

\* C8: merge is functional: for every non-empty candidate list, the updater
\* returns a node array and a link array that are not the ones it was given,
\* and every array and node object that existed before it ran (INITIAL_NODES
\* and its root object among them) has the contents it had.
C8_MergeLeavesInputUntouched ==
    \A updates \in UpdateLists \ {<<>>} :
        LET r == Merge(heap, dojoState, updates)
        IN /\ r.state.mindMapNodes # dojoState.mindMapNodes
           /\ r.state.mindMapLinks # dojoState.mindMapLinks
           /\ r.state.mindMapNodes # INITIAL_STATE.mindMapNodes
           /\ SameContents(heap, r.heap)

\* a state that earlier merges produced, and a list that replaces one of its
\* node objects and pushes a node and a link
C8_Witness ==
    /\ dojoState.mindMapNodes # INITIAL_STATE.mindMapNodes
    /\ \E updates \in UpdateLists :
          LET r == Merge(heap, dojoState, updates)
          IN /\ Len(LinksOf(r.heap, r.state)) > Len(Links)
             /\ \E i \in 1..Len(Nodes) :
                   r.heap.nodeArrs[r.state.mindMapNodes][i] #
                      heap.nodeArrs[dojoState.mindMapNodes][i]

\* the graph after the forEach body has run for the one candidate n
AfterCandidate(n) ==
    LET m == MergeNode(MergeStart(heap, dojoState), n)
    IN GraphOf([heap |-> m.heap,
                state |-> [mindMapNodes |-> m.nextNodes, mindMapLinks |-> m.nextLinks]])

\* the places of the nodes whose label is that of n, letter case aside
Matches(n) == {i \in 1..Len(Nodes) : ToLowerCase(Nodes[i].label) = ToLowerCase(n.label)}

\* C9: promotion in place: a candidate whose label matches a node adds no node
\* and no link; the matched node keeps its place, id, label and type, its
\* status becomes active only if it was potential and the candidate is active;
\* every other node and every link is unchanged.
C9_PromotionInPlace ==
    \A n \in Candidates :
        Matches(n) # {} =>
            LET after == AfterCandidate(n)
            IN /\ Len(after.nodes) = Len(Nodes)
               /\ after.links = Links
               /\ \A i \in 1..Len(Nodes) :
                     after.nodes[i] =
                        IF i \in Matches(n) /\ Nodes[i].status = "potential"
                                            /\ n.status = "active"
                        THEN [Nodes[i] EXCEPT !.status = "active"]
                        ELSE Nodes[i]

\* a potential node met by an active candidate that spells its label and
\* gives its type differently
C9_Witness ==
    \E n \in Candidates : \E i \in Matches(n) :
        /\ Nodes[i].status = "potential" /\ n.status = "active"
        /\ n.label # Nodes[i].label /\ n.type # Nodes[i].type
        /\ AfterCandidate(n).nodes[i].status = "active"
        /\ Len(Links) >= 2

\* C10 as stated: a candidate whose label matches no node appends exactly one
\* node and exactly one link; the link's target is the new node and its source
\* is the node already in the list whose label equals the candidate's parent,
\* letter case aside, or the root "Context" if there is no such node.
C10_ParentResolution ==
    \A n \in Candidates :
        Matches(n) = {} =>
            LET after == AfterCandidate(n)
                parents == {i \in 1..Len(Nodes) :
                               ToLowerCase(Nodes[i].label) = ToLowerCase(n.parent)}
            IN /\ Len(after.nodes) = Len(Nodes) + 1
               /\ SubSeq(after.nodes, 1, Len(Nodes)) = Nodes
               /\ after.nodes[Len(Nodes) + 1].id = n.label
               /\ Len(after.links) = Len(Links) + 1
               /\ SubSeq(after.links, 1, Len(Links)) = Links
               /\ after.links[Len(Links) + 1].target = n.label
               /\ after.links[Len(Links) + 1].source =
                     IF parents # {} THEN Nodes[CHOOSE i \in parents : TRUE].id
                     ELSE "Context"

\* C12: links are deduplicated irrespective of direction: no two places of the
\* link list hold links that join the same unordered pair of node ids, be it
\* as the same source and target or as the reverse.
C12_NoTwoLinksJoinSamePair ==
    \A j, k \in 1..Len(Links) :
        j # k => {Links[j].source, Links[j].target} # {Links[k].source, Links[k].target}

\* three links left by merges, one of them below a node that is not the root,
\* and a candidate of the model that names a node already linked
C12_Witness ==
    /\ Len(Links) >= 3
    /\ \E k \in 1..Len(Links) : Links[k].source # "Context"
    /\ \E n \in Candidates : \E k \in 1..Len(Links) :
          Matches(n) # {} /\ Links[k].target = Nodes[CHOOSE i \in Matches(n) : TRUE].id

\* what reading a field no object literal ever set gives
Undefined == "undefined"

\* selectedNode.description, as the insight card reads it
Description(node) ==
    IF "description" \in DOMAIN node THEN node.description ELSE Undefined

\* C11 as stated: a candidate whose label matches no node creates a node whose
\* id is the candidate's label and whose type, status and description are the
\* candidate's.
C11_NewNodeCarriesCandidate ==
    \A n \in Candidates :
        Matches(n) = {} =>
            LET node == AfterCandidate(n).nodes[Len(Nodes) + 1]
            IN /\ node.id = n.label
               /\ node.type = n.type
               /\ node.status = n.status
               /\ Description(node) = n.description

(***************************************************************************)
(* Properties of the session                                               *)
(***************************************************************************)
\* a step in which a triggerGraphUpdate call has come to its end
UpdateEnds == \E call \in BagToSet(inFlight) : inFlight' = inFlight (-) SetToBag({call})

\* a step of handleReset
ResetStep == dojoState' = INITIAL_STATE /\ applied' = <<>> /\ UNCHANGED inFlight

\* C13 as stated: at any time at most one graph update is in flight, from its
\* extraction request to the application of its merge.
C13_AtMostOneInFlight == BagCardinality(inFlight) <= 1

\* C13: merges are applied one at a time: every step that changes the graph,
\* other than a reset, ends exactly one graph update and leaves the graph that
\* the whole merge of that update's response makes of the graph of the moment;
\* graph updates themselves may overlap.
C13_MergesOneAtATime ==
    [][(<<heap, dojoState>>' # <<heap, dojoState>> /\ ~ResetStep) =>
          /\ UpdateEnds
          /\ lastUpdate'.merged /\ lastUpdate'.nodes # <<>>
          /\ LET r == Merge(heap, dojoState, lastUpdate'.nodes)
             IN GraphOf([heap |-> heap', state |-> dojoState']) = GraphOf(r)]_vars

\* the text handler's update has been merged while the voice handler's update,
\* started before that merge, is still in flight
C13_Witness ==
    /\ lastUpdate.merged /\ lastUpdate.origin = "text"
    /\ Len(applied) = 1 /\ Len(Nodes) = 2
    /\ \E call \in BagToSet(inFlight) :
          call.origin = "voice" /\ Len(call.closure.nodes) = 1

\* the state after the candidate lists are merged one after the other
RECURSIVE MergeAll(_, _)
MergeAll(r, lists) ==
    IF lists = <<>> THEN r
    ELSE MergeAll(Merge(r.heap, r.state, Head(lists)), Tail(lists))

\* C14: no merge loses updates: the graph is the one that merging the
\* responses one after the other, in the order they arrived, makes of the
\* initial graph, whatever graph each update closed over; every candidate of
\* every merged list is a node of it.
C14_NoLostUpdate ==
    /\ GraphOf([heap |-> heap, state |-> dojoState]) =
          GraphOf(MergeAll([heap |-> InitialHeap, state |-> INITIAL_STATE], applied))
    /\ \A k \in 1..Len(applied) : \A j \in 1..Len(applied[k]) :
          \E i \in 1..Len(Nodes) :
              ToLowerCase(Nodes[i].label) = ToLowerCase(applied[k][j].label)

\* two updates overlapped: the one merged last had closed over the graph of
\* the single root node, and merging its response into that stale graph would
\* have lost the node of the other
C14_Witness ==
    /\ Len(applied) = 2 /\ Len(Nodes) = 3
    /\ lastUpdate.merged
    /\ lastUpdate.closure.nodes = <<RootObject>>
    /\ applied[1] # applied[2]

\* the responses the claim counts as a failure of the extraction
Failed(u) ==
    \/ u.throws
    \/ u.doc \in {"empty", "garbage", "noNodes"}
    \/ (u.doc = "nodes" /\ u.nodes = <<>>)

\* C16: extraction failure is absorbed: when the call throws or answers with
\* an empty text, with no nodes or with an empty node list, the updater is
\* not invoked, the node and link collections are the very same, and nothing
\* else of the state but the end of the update changes.
C16_FailureAbsorbed ==
    [][(UpdateEnds /\ Failed(lastUpdate')) =>
          /\ ~lastUpdate'.merged
          /\ heap' = heap /\ dojoState' = dojoState
          /\ applied' = applied
          /\ isProcessing' = isProcessing /\ turns' = turns]_vars

\* a failed extraction has been dealt with while the graph holds merged nodes
C16_Witness ==
    /\ Failed(lastUpdate) /\ lastUpdate.origin # None
    /\ lastUpdate.doc = "noNodes"
    /\ Len(Nodes) >= 2 /\ Len(applied) >= 1

\* s is t with some entries left out
RECURSIVE IsSubsequence(_, _)
IsSubsequence(s, t) ==
    IF s = <<>> THEN TRUE
    ELSE IF t = <<>> THEN FALSE
    ELSE IF Head(s) = Head(t) THEN IsSubsequence(Tail(s), Tail(t))
    ELSE IsSubsequence(s, Tail(t))

NodeIds == [i \in 1..Len(Nodes) |-> Nodes[i].id]

\* the node ids and the links of this state are those of the next, in order
Kept == IsSubsequence(NodeIds, NodeIds') /\ IsSubsequence(Links, Links')

\* C17 as stated: no operation removes a node or a link: in every step the
\* node ids and the links of the previous state are still present, in the same
\* relative order.
C17_NoDeletion == [][Kept]_vars

\* C17: nodes and links are created only by merge, and only a reset removes
\* any: in every step but a reset the node ids and the links of the previous
\* state are still present in the same relative order, a step that adds a
\* node or a link is a merge, and a reset leaves the single root node and no
\* link.
C17_NoDeletionButReset ==
    [][/\ ~ResetStep => Kept
       /\ (Len(Nodes') > Len(Nodes) \/ Len(Links') > Len(Links)) =>
             (UpdateEnds /\ lastUpdate'.merged)
       /\ ResetStep => (Nodes' = <<RootObject>> /\ Links' = <<>>)]_vars

\* a merge since the last reset, while an update started before that reset
\* still holds the graph with the node the reset removed
C17_Witness ==
    /\ Len(applied) = 1 /\ Len(Nodes) = 2 /\ Len(Links) = 1
    /\ lastUpdate.merged
    /\ \E call \in BagToSet(inFlight) :
          Len(call.closure.nodes) = 2 /\ call.closure.nodes[2].id # Nodes[2].id

\* C27 as stated: Clear is final for the old session: from handleReset on, as
\* long as no new turn is sent, the graph is the initial graph; a graph update
\* that was under way when Clear was pressed adds no node and no link.
C27_ClearIsFinal ==
    cleared => (Nodes = <<RootObject>> /\ Links = <<>>)

(***************************************************************************)
(* Properties of computeDepths and getPathToRoot                           *)
(***************************************************************************)
\* the ids within k directed links of "Context"
RECURSIVE Within(_, _)
Within(linkL, k) ==
    IF k = 0 THEN {"Context"}
    ELSE LET near == Within(linkL, k - 1)
         IN near \cup {linkL[j].target : j \in {x \in 1..Len(linkL) : linkL[x].source \in near}}

Reachable(linkL) == Within(linkL, Len(linkL))

\* the shortest directed distance from "Context" to a reachable id
Distance(linkL, id) ==
    CHOOSE k \in 0..Len(linkL) :
        id \in Within(linkL, k) /\ \A j \in 0..(k - 1) : id \notin Within(linkL, j)

\* C5: depth correctness: computeDepths gives every id reachable from
\* "Context" its shortest directed distance and no depth to any other id,
\* maxDepth is the largest distance, and the layout gives every node of its node
\* list the distance if the node is reachable and 0 if it is not.
C5_DepthCorrectness ==
    fnPc = "depths" =>
        /\ DOMAIN depthsOut.depths = Reachable(linkList)
        /\ \A id \in Reachable(linkList) :
              depthsOut.depths[id] = Distance(linkList, id)
        /\ \E id \in Reachable(linkList) : depthsOut.maxDepth = Distance(linkList, id)
        /\ \A id \in Reachable(linkList) : depthsOut.maxDepth >= Distance(linkList, id)
        /\ \A i \in 1..Len(nodeList) :
              depthsOut.simulation[i] =
                 IF nodeList[i] \in Reachable(linkList)
                 THEN Distance(linkList, nodeList[i]) ELSE 0

\* a node at distance 2 that a shorter and a longer route reach, and a node of
\* the list that no route reaches
C5_Witness ==
    /\ fnPc = "depths"
    /\ depthsOut.maxDepth >= 2
    /\ \E i \in 1..Len(nodeList) : nodeList[i] \notin Reachable(linkList)
    /\ \E j, k \in 1..Len(linkList) :
          j # k /\ linkList[j].target = linkList[k].target
               /\ linkList[j].source # linkList[k].source

\* the ids a link list mentions
IdsIn(linkL) == {linkL[k].source : k \in 1..Len(linkL)} \cup {linkL[k].target : k \in 1..Len(linkL)}

\* the ids reached from id along one or more links
RECURSIVE Descendants(_, _, _)
Descendants(linkL, from, k) ==
    IF k = 0 THEN {}
    ELSE LET step == {linkL[j].target : j \in {x \in 1..Len(linkL) : linkL[x].source \in from}}
         IN step \cup Descendants(linkL, step, k - 1)

Acyclic(linkL) == \A id \in IdsIn(linkL) : id \notin Descendants(linkL, {id}, Len(linkL))

\* every id the links mention, but the root, is the target of a link
EveryNodeHasParent(linkL) ==
    \A id \in IdsIn(linkL) \ {"Context"} : \E k \in 1..Len(linkL) : linkL[k].target = id

\* C6 as stated: for any acyclic link list and any queried id the returned set
\* holds the queried id and "Context".
C6_AcyclicPathHasRoot ==
    (fnPc = "path" /\ Acyclic(linkList)) =>
        (targetId \in pathOut.path /\ "Context" \in pathOut.path)

\* C6: for an acyclic link list of fewer links than the iteration cap in which
\* every node but the root is the target of a link, and a queried id that is
\* the root or an end of a link, the returned set holds the queried id and
\* "Context".
C6_WellFormedPathHasRoot ==
    (/\ fnPc = "path"
     /\ Acyclic(linkList)
     /\ Len(linkList) < IterationCap
     /\ EveryNodeHasParent(linkList)
     /\ targetId \in IdsIn(linkList) \cup {"Context"}) =>
        (targetId \in pathOut.path /\ "Context" \in pathOut.path)

\* a well-formed list, queried at a node two or more links below the root
C6_Witness ==
    /\ fnPc = "path"
    /\ Acyclic(linkList)
    /\ EveryNodeHasParent(linkList)
    /\ targetId \in IdsIn(linkList) \ {"Context"}
    /\ Cardinality(pathOut.path) >= 3
    /\ "Context" \in pathOut.path

\* C7: getPathToRoot terminates: the loop runs at most 100 times for any link
\* list, and for an acyclic one at most as often as there are nodes (the ids
\* of the links and the queried id).
C7_PathTerminates ==
    fnPc = "path" =>
        /\ pathOut.iterations <= IterationCap
        /\ Acyclic(linkList) =>
              pathOut.iterations <= Cardinality(IdsIn(linkList) \cup {targetId})

\* an acyclic chain walked to its end, one iteration per node
C7_Witness ==
    /\ fnPc = "path"
    /\ Acyclic(linkList)
    /\ pathOut.iterations >= 3
    /\ pathOut.iterations = Cardinality(IdsIn(linkList) \cup {targetId})

\* C22: for any link list the set getPathToRoot returns holds the starting id;
\* every other member is an ancestor of the starting id and the source of a
\* link whose target is in the set; and the walk stopped at the first id that
\* no link targets or whose first parent link has its source in the set
\* already, having added one member in every pass before the last.
C22_PathIsAncestorChain ==
    fnPc = "path" =>
        /\ targetId \in pathOut.path
        /\ \A m \in pathOut.path \ {targetId} :
              /\ targetId \in Descendants(linkList, {m}, Len(linkList))
              /\ \E k \in 1..Len(linkList) :
                    linkList[k].source = m /\ linkList[k].target \in pathOut.path
        /\ pathOut.last \in pathOut.path
        /\ \A k \in 1..Len(linkList) :
              (/\ linkList[k].target = pathOut.last
               /\ \A j \in 1..(k - 1) : linkList[j].target # pathOut.last) =>
                  linkList[k].source \in pathOut.path
        /\ pathOut.iterations = Cardinality(pathOut.path)

\* a walk of two steps round a cycle away from the root, stopped by the link
\* that leads back into the set
C22_Witness ==
    /\ fnPc = "path"
    /\ Cardinality(pathOut.path) = 3
    /\ "Context" \notin pathOut.path
    /\ \E k \in 1..Len(linkList) :
          linkList[k].target = pathOut.last /\ linkList[k].source \in pathOut.path

\* a sequence without a repeated element
NoRepeat(s) == \A i, j \in 1..Len(s) : s[i] = s[j] => i = j

\* C30: computeDepths terminates for every link list, with cycles, self-loops,
\* duplicate links and links to ids that are no nodes: it returns, no id is
\* pushed on the queue twice, no depth is written twice, the loop ran once for
\* each pushed id, and that is at most once for each id of the links and the root.
C30_DepthsTerminate ==
    fnPc = "depths" =>
        /\ NoRepeat(depthsOut.pushes)
        /\ NoRepeat(depthsOut.writes)
        /\ depthsOut.writes = depthsOut.pushes
        /\ depthsOut.passes = Len(depthsOut.pushes)
        /\ depthsOut.passes <= Cardinality(IdsIn(linkList) \cup {"Context"})

\* a link list with a cycle through the root, a duplicate link and an id that
\* is no node of the list, all walked
C30_Witness ==
    /\ fnPc = "depths"
    /\ ~Acyclic(linkList)
    /\ "Context" \in Descendants(linkList, {"Context"}, Len(linkList))
    /\ \E j, k \in 1..Len(linkList) : j # k /\ linkList[j] = linkList[k]
    /\ \E i \in 1..Len(depthsOut.pushes) :
          \A n \in 1..Len(nodeList) : nodeList[n] # depthsOut.pushes[i]
    /\ depthsOut.passes >= 2

(***************************************************************************)
(* Properties of the graph's shape                                         *)
(***************************************************************************)
\* the ids of the graph's nodes
GraphIds == {Nodes[i].id : i \in 1..Len(Nodes)}

\* C24 as stated: tree shape: after any sequence of merges from the initial
\* graph no link has the same node as source and target, every node other
\* than the root is the target of exactly one link, and every node is reachable
\* from "Context".
C24_TreeShape ==
    /\ \A k \in 1..Len(Links) : Links[k].source # Links[k].target
    /\ \A i \in 1..Len(Nodes) :
          Nodes[i].id # "Context" =>
             Cardinality({k \in 1..Len(Links) : Links[k].target = Nodes[i].id}) = 1
    /\ GraphIds \subseteq Reachable(Links)

C26_MergeComposes ==
    \A l1, l2 \in SplitLists :
        LET first == Merged(l1)
            second == ApplyUpdates(first.heap, first.state, l2)
        IN GraphOf(second) = GraphOf(Merged(l1 \o l2))

\* a first list that creates a node and a second one that hangs a new node
\* under it, in a graph that has more than the root
C26_Witness ==
    \E l1, l2 \in SplitLists :
        LET first == GraphOf(Merged(l1))
            both == GraphOf(Merged(l1 \o l2))
        IN /\ Len(Nodes) > 1
           /\ Len(first.nodes) = Len(Nodes) + 1
           /\ Len(both.nodes) = Len(Nodes) + 2
           /\ both.links[Len(both.links)].source = first.nodes[Len(first.nodes)].id
           /\ both.links[Len(both.links)].source # both.links[Len(both.links)].target

\* the fields d3 gives a node it simulates
PositionFields == {"index", "x", "y", "vx", "vy"}

\* C23 as stated: the layout works on copies: starting a simulation and
\* running its steps changes neither the node objects of the graph nor its
\* links: every link of the graph state has a plain id as source and as
\* target, and no node of the graph has a position field.
C23_LayoutWorksOnCopies ==
    /\ \A k \in 1..Len(Links) :
          Links[k].source \in GraphIds /\ Links[k].target \in GraphIds
    /\ \A i \in 1..Len(Nodes) : DOMAIN Nodes[i] \cap PositionFields = {}

(***************************************************************************)
(* Properties of the selection                                             *)
(***************************************************************************)
\* a step that selects a node, selects another one or clears the selection
SelectionStep == selectedNode' # selectedNode

\* C21: selection never mutates the graph: a step that selects a node or
\* clears the selection, with the highlighted set computed for it, leaves the
\* node objects, the node list and the link list as they were, and the
\* highlighted set is empty whenever no node is selected.
C21_SelectionKeepsGraph ==
    /\ [](selectedNode = <<>> => highlightSet = {})
    /\ [][SelectionStep => (heap' = heap /\ dojoState' = dojoState)]_vars

\* a node two links below the root is selected and its path highlighted
C21_Witness ==
    /\ selectedNode # <<>>
    /\ Len(Links) >= 2
    /\ Cardinality(highlightSet) = 3
    /\ "Context" \in highlightSet

\* C29 as stated: the selection follows the graph: whenever a node is
\* selected, the status and the type the card shows for it are those of the
\* node with that id in the current graph, also after a merge has promoted it.
C29_SelectionFollowsGraph ==
    selectedNode # <<>> =>
        \A i \in 1..Len(Nodes) :
            Nodes[i].id = selectedNode[1].id =>
                /\ selectedNode[1].status = Nodes[i].status
                /\ selectedNode[1].type = Nodes[i].type

(***************************************************************************)
(* Properties of the conversation history                                  *)
(***************************************************************************)
\* C28 as stated: no committed message is lost: in every interleaving of a
\* text turn with voice events a step leaves every message of the history at
\* its place with its role, text and timestamp, so the history changes only by
\* appends and by translations added to a message; the response handler of a
\* text turn overwrites no message but the user message of its own turn.
C28_NoCommittedMessageLost ==
    [][\A i \in 1..Len(conversationHistory) :
          /\ i <= Len(conversationHistory')
          /\ conversationHistory'[i].role = conversationHistory[i].role
          /\ conversationHistory'[i].text = conversationHistory[i].text
          /\ conversationHistory'[i].timestamp = conversationHistory[i].timestamp]_vars

(***************************************************************************)
(* Properties of the layout                                                *)
(***************************************************************************)
\* the simulations whose timer still fires
Running(sims) == {k \in 1..Len(sims) : sims[k].running}

\* x, y and velocity of a datum, as the cache holds them
PositionOf(d) == [x |-> d.x, y |-> d.y, vx |-> d.vx, vy |-> d.vy]

\* the simulations that have just made a step
Ticked == {k \in 1..Len(simulations) :
              k <= Len(simulations') /\ simulations'[k].ticksLeft < simulations[k].ticksLeft}

\* a step in which the effect has run
EffectRuns == layoutStep' \in {"effect", "restart"} /\ simulations' # simulations

\* C15: single simulation writer: after every step at most one simulation is
\* running; a run of the effect leaves only the simulation it has started; a
\* step that changes the position cache is a step of the one simulation that
\* is running, the one started last, and the cache takes that simulation's data.
C15_SingleSimulationWriter ==
    [][/\ Cardinality(Running(simulations')) <= 1
       /\ EffectRuns => Running(simulations') = {Len(simulations')}
       /\ nodePositions' # nodePositions =>
             /\ Running(simulations) = {Len(simulations)}
             /\ Ticked = {Len(simulations)}
             /\ \A d \in {simulations'[Len(simulations)].nodes[i] :
                            i \in 1..Len(simulations'[Len(simulations)].nodes)} :
                   nodePositions'[d.id] = PositionOf(d)
             /\ \A id \in DOMAIN nodePositions :
                   (\A i \in 1..Len(simulations[Len(simulations)].nodes) :
                       simulations[Len(simulations)].nodes[i].id # id) =>
                      nodePositions'[id] = nodePositions[id]]_vars

\* the graph has changed while a simulation that had written the cache was
\* still running: that one is stopped, the new one runs
C15_Witness ==
    /\ layoutStep = "restart"
    /\ Len(Nodes) >= 2
    /\ nodePositions # <<>>
    /\ Running(simulations) = {Len(simulations)}

\* C18: warm start: after a step of a simulation the cache holds x, y and
\* velocity of each of its nodes under the node's id; a simulation the effect
\* starts has every node whose id is in the cache at the cached x, y and
\* velocity, so a node the stopped simulation had placed is where it was.
C18_WarmStart ==
    [][/\ \A k \in Ticked : \A i \in 1..Len(simulations'[k].nodes) :
             LET d == simulations'[k].nodes[i]
             IN d.id \in DOMAIN nodePositions' /\ nodePositions'[d.id] = PositionOf(d)
       /\ EffectRuns =>
             LET new == simulations'[Len(simulations')].nodes
             IN /\ \A i \in 1..Len(new) :
                      new[i].id \in DOMAIN nodePositions =>
                         PositionOf(new[i]) = nodePositions[new[i].id]
                /\ \A k \in 1..Len(simulations) :
                      simulations[k].ticksLeft < MaxTicks =>
                         \A j \in 1..Len(simulations[k].nodes) : \A i \in 1..Len(new) :
                            new[i].id = simulations[k].nodes[j].id =>
                               PositionOf(new[i]) = PositionOf(simulations[k].nodes[j])]_vars

\* a merge has restarted the layout: a node the forces had moved off its
\* starting place starts where the cache has it, next to a node that is new
C18_Witness ==
    /\ layoutStep = "restart"
    /\ LET sim == simulations[Len(simulations)]
       IN /\ \E i \in 1..Len(sim.nodes) :
                /\ sim.nodes[i].id \in DOMAIN nodePositions
                /\ sim.nodes[i].x # Half(sim.containerWidth)
                /\ sim.nodes[i].vx # 0
          /\ \E i \in 1..Len(sim.nodes) : sim.nodes[i].id \notin DOMAIN nodePositions

\* the depth of a node: its distance from the root, 0 if no route reaches it
LayoutDepth(id) == IF id \in Reachable(Links) THEN Distance(Links, id) ELSE 0

\* C19: in a simulation that has just been started, a node with no cached
\* position is at x = containerWidth / 2 and y = depth * 120 + 60 with
\* velocity 0, and that y is the target forceY pulls the node to.
C19_ColdStart ==
    \A k \in 1..Len(simulations) :
        simulations[k].ticksLeft = MaxTicks =>
            \A i \in 1..Len(simulations[k].nodes) :
                LET d == simulations[k].nodes[i]
                IN d.id \notin DOMAIN nodePositions =>
                      /\ 2 * d.x = simulations[k].containerWidth
                      /\ d.y = LayoutDepth(d.id) * Y_SPACING + PADDING_TOP
                      /\ d.vx = 0 /\ d.vy = 0
                      /\ d.y = d.targetY

\* a simulation just started for a graph with a new node two tiers below the
\* root, while the cache has the places of the other nodes
C19_Witness ==
    /\ layoutStep \in {"effect", "restart"}
    /\ nodePositions # <<>>
    /\ LET sim == simulations[Len(simulations)]
       IN /\ sim.ticksLeft = MaxTicks
          /\ \E i \in 1..Len(sim.nodes) :
                /\ sim.nodes[i].id \notin DOMAIN nodePositions
                /\ LayoutDepth(sim.nodes[i].id) = 2

\* C20 as stated: after every simulation step every node has
\* halfWidth + padding <= x <= containerWidth - halfWidth - padding, and y is
\* not above the top boundary, the line y = 0 of the drawing.
C20_Clamped ==
    layoutStep = "tick" =>
        \A k \in 1..Len(simulations) : \A i \in 1..Len(simulations[k].nodes) :
            LET d == simulations[k].nodes[i]
                halfWidth == Half(RectWidth(d.id))
            IN /\ halfWidth + TickPadding <= d.x
               /\ d.x <= simulations[k].containerWidth - halfWidth - TickPadding
               /\ d.y >= 0

====
